---- MODULE Spec2Model ----
(***************************************************************************)
(* A model of dash-kaleido's layout core: the layout registry              *)
(* (layout_registry.py), the registration decorator (decorators.py) and    *)
(* the layout tree walker with its identifier injector (layout_utils.py).  *)
(*                                                                         *)
(* Python values are modelled as tagged records.  Dash components are      *)
(* mutable objects: they live in a heap (a sequence of objects addressed   *)
(* by position) and a value refers to one by its address, so that the      *)
(* in-place assignments of the walker and of the injector are visible to   *)
(* every holder of the component.  Lists, tuples and mappings are values:  *)
(* the code never shares one of them between two owners in the trees       *)
(* considered here, and an in-place store into a mapping is written back   *)
(* to the property that holds the mapping.                                 *)
(***************************************************************************)
EXTENDS Integers, Sequences, FiniteSets, TLC

VARIABLES
    heap,      \* the component objects, by address
    heap0,     \* history: every component as it was constructed
    layouts,   \* LayoutRegistry._layouts
    pristine,  \* history: the ids whose tree was registered as it was constructed
    calls,     \* history: number of times the body of each function has run
    decorated, \* the functions register_layout_callback was applied to
    ret,       \* the outcome of the last operation
    input,     \* walker runs: the tree handed to the first pass
    passes,    \* walker runs: the instance ids of the inject passes so far
    locals     \* the local variables of the callers: what each holds of a call

vars == <<heap, heap0, layouts, pristine, calls, decorated, ret, input, passes, locals>>

----------------------------------------------------------------------------
(* Python values *)

None == [k |-> "none"]
Str(s) == [k |-> "str", s |-> s]
Comp(a) == [k |-> "comp", a |-> a]
List(items) == [k |-> "list", items |-> items]
Tuple(items) == [k |-> "tuple", items |-> items]
Dict(m) == [k |-> "dict", m |-> m]
Func(f) == [k |-> "func", f |-> f]

\* isinstance(v, (list, tuple))
IsListOrTuple(v) == v.k \in {"list", "tuple"}

\* hasattr(component, name)
HasAttr(c, name) == name \in DOMAIN c.props

\* setattr(component, name, value), on the component at address a
SetAttr(h, a, name, value) ==
    [h EXCEPT ![a].props = (name :> value) @@ @]

SetItemDropsOtherKeys(d, key, value) == Dict(key :> value)

\* d[key] = value
SetItem(d, key, value) == Dict((key :> value) @@ d.m)

----------------------------------------------------------------------------
(* Property paths.  A path such as "items[].content" is the sequence of    *)
(* its tokens <<"items", "[]", ".", "content">>; split, endswith, rstrip   *)
(* and join work on the tokens.                                            *)

RECURSIVE SplitDots(_)
SplitDots(path) ==
    IF \A i \in 1..Len(path) : path[i] # "."
    THEN <<path>>
    ELSE LET i == CHOOSE j \in 1..Len(path) :
                      path[j] = "." /\ \A l \in 1..(j - 1) : path[l] # "."
         IN <<SubSeq(path, 1, i - 1)>> \o SplitDots(SubSeq(path, i + 1, Len(path)))

RECURSIVE JoinDots(_)
JoinDots(parts) ==
    IF Len(parts) = 0 THEN <<>>
    ELSE IF Len(parts) = 1 THEN parts[1]
    ELSE parts[1] \o <<".">> \o JoinDots(Tail(parts))

EndsWithArrayNever(part) == FALSE

\* part.endswith('[]')
EndsWithArray(part) == Len(part) > 0 /\ part[Len(part)] = "[]"

\* part.rstrip('[]'): the name left when the trailing array markers are gone
RECURSIVE RStripArray(_)
RStripArray(part) ==
    IF EndsWithArray(part) THEN RStripArray(SubSeq(part, 1, Len(part) - 1))
    ELSE IF part = <<>> THEN "" ELSE part[1]

----------------------------------------------------------------------------
(* The transforms.  A transform is described by a record; a walk threads   *)
(* the world w = [h |-> heap, log |-> addresses handed to the transform].  *)

IdentityTransform == [kind |-> "identity"]
IdInjector(tab_id) == [kind |-> "inject", tab_id |-> tab_id]

\* create_id_injector(tab_id).transform, applied to the component at a
InjectorTransformMissesIndexCheck(h, a, tab_id) ==
    LET component == h[a] IN
    IF ~HasAttr(component, "id") \/ component.props.id = None THEN h
    ELSE LET current_id == component.props.id IN
         IF current_id.k = "str"
         THEN SetAttr(h, a, "id", Dict([type |-> current_id, index |-> Str(tab_id)]))
         ELSE IF current_id.k = "dict"
         THEN SetAttr(h, a, "id", Dict(("index" :> Str(tab_id)) @@ current_id.m))
         ELSE h

InjectorTransformDropsFields(h, a, tab_id) ==
    LET component == h[a] IN
    IF ~HasAttr(component, "id") \/ component.props.id = None THEN h
    ELSE LET current_id == component.props.id IN
         IF current_id.k = "str"
         THEN SetAttr(h, a, "id", Dict([type |-> current_id, index |-> Str(tab_id)]))
         ELSE IF current_id.k = "dict"
         THEN IF "index" \in DOMAIN current_id.m THEN h
              ELSE SetAttr(h, a, "id", Dict([index |-> Str(tab_id)]))
         ELSE h

InjectorTransform(h, a, tab_id) ==
    LET component == h[a] IN
    IF ~HasAttr(component, "id") \/ component.props.id = None THEN h
    ELSE LET current_id == component.props.id IN
         IF current_id.k = "str"
         THEN SetAttr(h, a, "id", Dict([type |-> current_id, index |-> Str(tab_id)]))
         ELSE IF current_id.k = "dict"
         THEN IF "index" \in DOMAIN current_id.m THEN h
              ELSE SetAttr(h, a, "id", Dict(("index" :> Str(tab_id)) @@ current_id.m))
         ELSE h

\* transform_fn(component): both transforms return the component they got
ApplyTransform(w, a, tf) ==
    [h |-> IF tf.kind = "inject" THEN InjectorTransform(w.h, a, tf.tab_id) ELSE w.h,
     log |-> Append(w.log, a),
     a |-> a]

----------------------------------------------------------------------------
(* walk_layout and its helpers.  Each returns the world after the call,    *)
(* together with the value the call returns (v, or items for a sequence    *)
(* of values).  A result record is itself a world for the next call.       *)

RECURSIVE WalkLayout(_, _, _)
RECURSIVE WalkItems(_, _, _)
RECURSIVE WalkChildrenProps(_, _, _, _)
RECURSIVE TransformChildrenProp(_, _, _, _)
RECURSIVE TransformDictPath(_, _, _, _)
RECURSIVE TransformDictItems(_, _, _, _)

\* the value v followed by the values of rest, in the world after rest
ConsItem(v, rest) == [h |-> rest.h, log |-> rest.log, items |-> <<v>> \o rest.items]

\* setattr(component, name, <sequence of kind: the items of r>)
SetAttrItems(r, a, name, kind) ==
    [h |-> SetAttr(r.h, a, name, [k |-> kind, items |-> r.items]), log |-> r.log]

\* setattr(component, name, <the value of r>)
SetAttrValue(r, a, name) ==
    [h |-> SetAttr(r.h, a, name, r.v), log |-> r.log]

\* d[key] = <sequence of kind: the items of r>
SetItemItems(r, d, key, kind) ==
    [h |-> r.h, log |-> r.log, v |-> SetItem(d, key, [k |-> kind, items |-> r.items])]

\* d[key] = <the value of r>
SetItemValue(r, d, key) ==
    [h |-> r.h, log |-> r.log, v |-> SetItem(d, key, r.v)]

\* [walk_layout(item, transform_fn) for item in items]
WalkItemsRest(r, rest, tf) == ConsItem(r.v, WalkItems(r, rest, tf))

WalkItems(w, items, tf) ==
    IF Len(items) = 0 THEN [h |-> w.h, log |-> w.log, items |-> <<>>]
    ELSE WalkItemsRest(WalkLayout(w, Head(items), tf), Tail(items), tf)

\* for item in items: if isinstance(item, dict): _transform_dict_path(item, ...)
TransformDictItemsRest(r, rest, path, tf) ==
    ConsItem(r.v, TransformDictItems(r, rest, path, tf))

TransformDictItems(w, items, path, tf) ==
    IF Len(items) = 0 THEN [h |-> w.h, log |-> w.log, items |-> <<>>]
    ELSE TransformDictItemsRest(
             IF Head(items).k = "dict" THEN TransformDictPath(w, Head(items), path, tf)
             ELSE [h |-> w.h, log |-> w.log, v |-> Head(items)],
             Tail(items), path, tf)

\* _transform_dict_path(d, path, transform_fn); v is d after the call
TransformDictPath(w, d, path, tf) ==
    LET parts == SplitDots(path)
        first_part == parts[1]
        is_array == EndsWithArray(first_part)
        key == RStripArray(first_part)
        same == [h |-> w.h, log |-> w.log, v |-> d]
    IN
    IF key \notin DOMAIN d.m THEN same
    ELSE IF Len(parts) = 1
    THEN IF is_array /\ IsListOrTuple(d.m[key])
         THEN SetItemItems(WalkItems(w, d.m[key].items, tf), d, key, "list")
         ELSE IF d.m[key].k = "comp"
         THEN SetItemValue(WalkLayout(w, d.m[key], tf), d, key)
         ELSE same
    ELSE IF is_array /\ IsListOrTuple(d.m[key])
         THEN SetItemItems(
                  TransformDictItems(w, d.m[key].items, JoinDots(Tail(parts)), tf),
                  d, key, d.m[key].k)
         ELSE IF d.m[key].k = "dict"
         THEN SetItemValue(TransformDictPath(w, d.m[key], JoinDots(Tail(parts)), tf),
                           d, key)
         ELSE same

\* _transform_children_prop(component, prop_path, transform_fn)
TransformChildrenProp(w, a, prop_path, tf) ==
    LET parts == SplitDots(prop_path)
        first_part == parts[1]
        is_array == EndsWithArray(first_part)
        prop_name == RStripArray(first_part)
        same == [h |-> w.h, log |-> w.log]
    IN
    IF ~HasAttr(w.h[a], prop_name) THEN same
    ELSE IF w.h[a].props[prop_name] = None THEN same
    ELSE IF Len(parts) = 1
    THEN IF is_array /\ IsListOrTuple(w.h[a].props[prop_name])
         THEN SetAttrItems(WalkItems(w, w.h[a].props[prop_name].items, tf),
                           a, prop_name, "list")
         ELSE IF w.h[a].props[prop_name].k = "comp"
         THEN SetAttrValue(WalkLayout(w, w.h[a].props[prop_name], tf), a, prop_name)
         ELSE same
    ELSE IF is_array /\ IsListOrTuple(w.h[a].props[prop_name])
         THEN SetAttrItems(
                  TransformDictItems(w, w.h[a].props[prop_name].items,
                                     JoinDots(Tail(parts)), tf),
                  a, prop_name, w.h[a].props[prop_name].k)
         ELSE IF w.h[a].props[prop_name].k = "dict"
         THEN SetAttrValue(
                  TransformDictPath(w, w.h[a].props[prop_name],
                                    JoinDots(Tail(parts)), tf),
                  a, prop_name)
         ELSE same

WalkChildrenPropsFirstOnly(w, a, children_props, tf) ==
    IF Len(children_props) = 0 THEN [h |-> w.h, log |-> w.log]
    ELSE TransformChildrenProp(w, a, Head(children_props), tf)

\* for prop_path in children_props: _transform_children_prop(...)
WalkChildrenProps(w, a, children_props, tf) ==
    IF Len(children_props) = 0 THEN [h |-> w.h, log |-> w.log]
    ELSE WalkChildrenProps(TransformChildrenProp(w, a, Head(children_props), tf),
                           a, Tail(children_props), tf)

WalkChildrenSkipped(t, tf) == [h |-> t.h, log |-> t.log]

\* transformed.children = walk_layout(transformed.children, transform_fn)
WalkChildren(t, tf) ==
    IF HasAttr(t.h[t.a], "children") /\ t.h[t.a].props.children # None
    THEN SetAttrValue(WalkLayout(t, t.h[t.a].props.children, tf), t.a, "children")
    ELSE [h |-> t.h, log |-> t.log]

\* the _children_props of the transformed component, then return it
WalkProps(w, a, tf) == WalkChildrenProps(w, a, w.h[a].cprops, tf)

ReturnComponent(w, a) == [h |-> w.h, log |-> w.log, v |-> Comp(a)]

\* the component branch: t is the world after transform_fn(layout)
WalkComponent(t, tf) == ReturnComponent(WalkProps(WalkChildren(t, tf), t.a, tf), t.a)

\* type(layout)(result) if isinstance(layout, tuple) else result
SequenceOfKind(layout, r) ==
    [h |-> r.h, log |-> r.log,
     v |-> IF layout.k = "tuple" THEN Tuple(r.items) ELSE List(r.items)]

WalkLayoutPostOrder(w, layout, tf) ==
    IF layout.k = "comp"
    THEN ReturnComponent(
             ApplyTransform(WalkComponent([h |-> w.h, log |-> w.log, a |-> layout.a],
                                          tf),
                            layout.a, tf),
             layout.a)
    ELSE IF IsListOrTuple(layout)
    THEN SequenceOfKind(layout, WalkItems(w, layout.items, tf))
    ELSE [h |-> w.h, log |-> w.log, v |-> layout]

\* walk_layout(layout, transform_fn)
WalkLayout(w, layout, tf) ==
    IF layout.k = "comp"
    THEN WalkComponent(ApplyTransform(w, layout.a, tf), tf)
    ELSE IF IsListOrTuple(layout)
    THEN SequenceOfKind(layout, WalkItems(w, layout.items, tf))
    ELSE [h |-> w.h, log |-> w.log, v |-> layout]

\* inject_tab_id(layout, tab_id)
InjectTabId(h, layout, tab_id) ==
    WalkLayout([h |-> h, log |-> <<>>], layout, IdInjector(tab_id))

----------------------------------------------------------------------------
(* Structural view of a tree: the value with every component reference     *)
(* replaced by the component's properties, so that two trees can be        *)
(* compared for structural equality.                                       *)

RECURSIVE Struct(_, _)
Struct(h, v) ==
    IF v.k = "comp"
    THEN [k |-> "node",
          props |-> [p \in DOMAIN h[v.a].props |-> Struct(h, h[v.a].props[p])],
          cprops |-> h[v.a].cprops]
    ELSE IF IsListOrTuple(v)
    THEN [k |-> v.k, items |-> [i \in 1..Len(v.items) |-> Struct(h, v.items[i])]]
    ELSE IF v.k = "dict"
    THEN [k |-> "dict", m |-> [key \in DOMAIN v.m |-> Struct(h, v.m[key])]]
    ELSE v

\* the components reachable from v through sequences and children slots
RECURSIVE ChildrenReach(_, _)
ChildrenReach(h, v) ==
    IF v.k = "comp"
    THEN {v.a} \cup (IF HasAttr(h[v.a], "children")
                     THEN ChildrenReach(h, h[v.a].props.children) ELSE {})
    ELSE IF IsListOrTuple(v)
    THEN UNION {ChildrenReach(h, v.items[i]) : i \in 1..Len(v.items)}
    ELSE {}

Range(s) == {s[i] : i \in 1..Len(s)}

----------------------------------------------------------------------------
(* Input trees of the walker runs: one root component (address 1) and      *)
(* MaxItems further components (addresses 2..MaxItems+1) arranged in one   *)
(* of the Shapes, every component with an identifier out of IdChoices.     *)

MaxItems == 2
MaxPasses == 2

Absent == [k |-> "absent"]
Num(n) == [k |-> "int", n |-> n]
NoProps == [p \in {} |-> None]

TabIds == {"t1", "t2"}

RootIdChoices == {Absent, Str("a"), Dict([type |-> Str("bar")])}
IdChoices == {None, Str("a"), Str("b"), Dict([type |-> Str("bar")]),
              Dict([type |-> Str("x"), index |-> Num(7)])}

MkComp(id, props, cprops) ==
    [props |-> IF id = Absent THEN props ELSE ("id" :> id) @@ props,
     cprops |-> cprops]

Shapes == {"children_list", "children_tuple", "children_chain", "sequence",
           "items_content", "items_tuple", "items_aside", "slots_tuple",
           "slots_list", "header", "cfg_nested", "header_list", "tabs_single"}

NNodes == MaxItems + 1
Kids == [i \in 1..MaxItems |-> Comp(i + 1)]

ItemsContentPath == <<"items", "[]", ".", "content">>

\* the root component of a shape
ShapeRoot(shape, id) ==
    CASE shape = "children_list" ->
           MkComp(id, [children |-> List(Kids \o <<Str("text")>>)], <<>>)
      [] shape = "children_tuple" ->
           MkComp(id, [children |-> Tuple(Kids)], <<>>)
      [] shape = "children_chain" ->
           MkComp(id, [children |-> Comp(2)], <<>>)
      [] shape = "sequence" ->
           MkComp(id, NoProps, <<>>)
      [] shape = "items_content" ->
           MkComp(id, [items |-> List([i \in 1..MaxItems |->
                          Dict([content |-> Kids[i], label |-> Str("L")])])],
                  <<ItemsContentPath>>)
      [] shape = "items_tuple" ->
           MkComp(id, [items |-> Tuple([i \in 1..MaxItems |->
                          Dict([content |-> Kids[i], label |-> Str("L")])])],
                  <<ItemsContentPath>>)
      [] shape = "items_aside" ->
           MkComp(id, [items |-> List([i \in 1..MaxItems |->
                          IF i < MaxItems
                          THEN Dict([content |-> Kids[i], label |-> Str("L")])
                          ELSE Dict([aside |-> Kids[i], label |-> Str("M")])])],
                  <<ItemsContentPath>>)
      [] shape = "slots_tuple" ->
           MkComp(id, [tabs |-> Tuple(Kids), children |-> None], <<<<"tabs", "[]">>>>)
      [] shape = "slots_list" ->
           MkComp(id, [tabs |-> List(Kids)], <<<<"tabs", "[]">>>>)
      [] shape = "header" ->
           MkComp(id, [header |-> Kids[1], footer |-> None,
                       children |-> Dict([inner |-> List(Tail(Kids))])],
                  <<<<"missing">>, <<"footer">>, <<"header">>>>)
      [] shape = "cfg_nested" ->
           MkComp(id, [cfg |-> Dict([slot |-> Kids[1], slots |-> Tuple(Tail(Kids)),
                                     none |-> None])],
                  <<<<"nope", ".", "y">>, <<"cfg", ".", "none", ".", "x">>,
                    <<"cfg", ".", "absent", ".", "x">>,
                    <<"cfg", ".", "slot">>, <<"cfg", ".", "slots", "[]">>>>)
      [] shape = "header_list" ->
           MkComp(id, [header |-> List(Kids)], <<<<"header">>>>)
      [] shape = "tabs_single" ->
           MkComp(id, [tabs |-> Kids[1], children |-> List(Tail(Kids))],
                  <<<<"tabs", "[]">>>>)

\* the heap of a shape: the root and the further components
ShapeHeap(shape, ids) ==
    [a \in 1..NNodes |->
        IF a = 1 THEN ShapeRoot(shape, ids[1])
        ELSE IF shape = "children_chain"
        THEN MkComp(ids[a], [children |-> IF a < NNodes THEN Comp(a + 1) ELSE None],
                    <<>>)
        ELSE MkComp(ids[a], NoProps, <<>>)]

\* the tree handed to the walker
ShapeValue(shape) ==
    IF shape = "sequence" THEN Tuple(<<Comp(1), List(Kids), Str("text")>>)
    ELSE Comp(1)

IdAssignments ==
    {ids \in [1..NNodes -> RootIdChoices \cup IdChoices] :
        /\ ids[1] \in RootIdChoices
        /\ \A a \in 2..NNodes : ids[a] \in IdChoices}

----------------------------------------------------------------------------
(* Outcome of an operation. *)

Result(op, id, tab, outcome, value, log) ==
    [op |-> op, id |-> id, tab |-> tab, outcome |-> outcome, value |-> value,
     log |-> log]

NoResult == Result("none", "", "", "ok", None, <<>>)

\* no caller holds anything
NoLocals == [c \in {} |-> None]

NoLayouts == [id \in {} |-> None]

----------------------------------------------------------------------------
(* Walker runs: one identity walk, or up to MaxPasses inject passes, each  *)
(* over the tree the previous pass returned.                               *)

WalkInit ==
    /\ \E shape \in Shapes, ids \in IdAssignments :
          /\ heap = ShapeHeap(shape, ids)
          /\ input = ShapeValue(shape)
    /\ heap0 = heap
    /\ layouts = NoLayouts
    /\ pristine = {}
    /\ calls = [f \in {} |-> 0]
    /\ decorated = [f \in {} |-> None]
    /\ ret = NoResult
    /\ passes = <<>>
    /\ locals = NoLocals

\* the caller receives the result r of a walk
WalkDone(r) ==
    /\ heap' = r.h
    /\ ret' = Result("walk", "", "", "ok", r.v, r.log)

InjectDone(r, tab_id) ==
    /\ heap' = r.h
    /\ ret' = Result("inject", "", tab_id, "ok", r.v, r.log)

WalkIdentity ==
    /\ ret.op = "none"
    /\ WalkDone(WalkLayout([h |-> heap, log |-> <<>>], input, IdentityTransform))
    /\ UNCHANGED <<heap0, layouts, pristine, calls, decorated, input, passes, locals>>

InjectPass(tab_id) ==
    /\ ret.op \in {"none", "inject"}
    /\ Len(passes) < MaxPasses
    /\ InjectDone(InjectTabId(heap, IF passes = <<>> THEN input ELSE ret.value, tab_id),
                  tab_id)
    /\ passes' = Append(passes, tab_id)
    /\ UNCHANGED <<heap0, layouts, pristine, calls, decorated, input, locals>>

WalkNext ==
    \/ WalkIdentity
    \/ \E tab_id \in TabIds : InjectPass(tab_id)

WalkSpec == WalkInit /\ [][WalkNext]_vars

----------------------------------------------------------------------------
(* Properties of the walker and the injector, over the walker runs.        *)

HasStringId(c) == HasAttr(c, "id") /\ c.props.id.k = "str"
HasDictId(c) == HasAttr(c, "id") /\ c.props.id.k = "dict"
HasIndexedId(c) == HasDictId(c) /\ "index" \in DOMAIN c.props.id.m
HasPartialId(c) == HasDictId(c) /\ "index" \notin DOMAIN c.props.id.m

\* {"type": s, "index": tab_id}
PatternId(s, tab_id) == Dict([type |-> Str(s), index |-> Str(tab_id)])

FirstInjectDone == ret.op = "inject" /\ Len(passes) = 1

\* the components of the input tree the walker is to reach: those reachable
\* through children slots, and those it handed to the transform
TreeNodes == ChildrenReach(heap0, input) \cup Range(ret.log)

\* C5: a component whose identifier is a mapping that already has an index
\* field keeps exactly that identifier under inject, for every instance id
\* and after any number of passes.
C5_ExplicitIndexUnchanged ==
    ret.op = "inject" =>
        \A a \in DOMAIN heap0 :
            HasIndexedId(heap0[a]) => heap[a].props.id = heap0[a].props.id

C5_Witness ==
    /\ ret.op = "inject"
    /\ \E a \in Range(ret.log) : HasIndexedId(heap0[a])

\* C6: after inject(tree, instance_id), every component reachable through
\* children (at every depth) whose identifier was a plain string s has the
\* identifier {type: s, index: instance_id} and is still in the tree.
C6_StringIdRewritten ==
    FirstInjectDone =>
        \A a \in ChildrenReach(heap0, input) :
            HasStringId(heap0[a]) =>
                /\ heap[a].props.id = PatternId(heap0[a].props.id.s, passes[1])
                /\ a \in ChildrenReach(heap, ret.value)

\* a string-identified component two children slots below the root
C6_Witness ==
    /\ FirstInjectDone
    /\ \E a, b \in DOMAIN heap0 :
          /\ HasAttr(heap0[1], "children") /\ heap0[1].props.children = Comp(b)
          /\ HasAttr(heap0[b], "children") /\ heap0[b].props.children = Comp(a)
          /\ HasStringId(heap0[a])
          /\ input = Comp(1)

\* C7: after inject(tree, instance_id), a component whose identifier was a
\* mapping without an index field has an identifier with exactly the original
\* fields, with their original values, plus index = instance_id.
C7_PartialIdGetsIndex ==
    FirstInjectDone =>
        \A a \in TreeNodes :
            HasPartialId(heap0[a]) =>
                /\ heap[a].props.id.k = "dict"
                /\ DOMAIN heap[a].props.id.m = DOMAIN heap0[a].props.id.m \cup {"index"}
                /\ heap[a].props.id.m["index"] = Str(passes[1])
                /\ \A f \in DOMAIN heap0[a].props.id.m :
                      heap[a].props.id.m[f] = heap0[a].props.id.m[f]

C7_Witness ==
    /\ FirstInjectDone
    /\ \E a \in TreeNodes : a # 1 /\ HasPartialId(heap0[a])

\* C8: walk(tree, identity_transform) is structurally equal to tree: same
\* nesting, same order, and every sequence keeps its kind (tuple or list).
C8_IdentityWalkPreservesTree ==
    ret.op = "walk" => Struct(heap, ret.value) = Struct(heap0, input)

\* the items of component a under the path items[].content
DeclaresItemsContent(a) ==
    /\ ItemsContentPath \in Range(heap0[a].cprops)
    /\ HasAttr(heap0[a], "items")
    /\ IsListOrTuple(heap0[a].props.items)

ItemHoldsStringNode(item) ==
    /\ item.k = "dict"
    /\ "content" \in DOMAIN item.m
    /\ item.m["content"].k = "comp"
    /\ HasStringId(heap0[item.m["content"].a])

\* C9: for a component declaring "items[].content" whose items are mappings,
\* inject rewrites the identifier s of the node under each content key to
\* {type: s, index: instance_id} and leaves every other key of every item
\* mapping unchanged.
C9_ItemsContentInjected ==
    FirstInjectDone =>
        \A a \in Range(ret.log) :
            DeclaresItemsContent(a) =>
                /\ HasAttr(heap[a], "items")
                /\ IsListOrTuple(heap[a].props.items)
                /\ Len(heap[a].props.items.items) = Len(heap0[a].props.items.items)
                /\ \A i \in 1..Len(heap0[a].props.items.items) :
                      LET old == heap0[a].props.items.items[i]
                          new == heap[a].props.items.items[i]
                      IN old.k = "dict" =>
                            /\ new.k = "dict"
                            /\ DOMAIN new.m = DOMAIN old.m
                            /\ \A key \in DOMAIN old.m \ {"content"} :
                                  Struct(heap, new.m[key]) = Struct(heap0, old.m[key])
                            /\ ItemHoldsStringNode(old) =>
                                  /\ new.m["content"] = old.m["content"]
                                  /\ heap[old.m["content"].a].props.id =
                                        PatternId(heap0[old.m["content"].a].props.id.s,
                                                  passes[1])

\* two or more items, each with a string-identified node under content and
\* a sibling key
C9_Witness ==
    /\ FirstInjectDone
    /\ \E a \in Range(ret.log) :
          /\ DeclaresItemsContent(a)
          /\ Len(heap0[a].props.items.items) >= 2
          /\ \A i \in 1..Len(heap0[a].props.items.items) :
                /\ ItemHoldsStringNode(heap0[a].props.items.items[i])
                /\ "label" \in DOMAIN heap0[a].props.items.items[i].m

----------------------------------------------------------------------------
(* Functions of the host application.  A function is known by its name;    *)
(* Signature gives its formal parameters as inspect.signature reports      *)
(* them, and its body builds a new component each time it runs.            *)

Empty == [k |-> "empty"]

Param(name, kind, default) ==
    [name |-> name, kind |-> kind, default |-> default, annotation |-> Empty]

\* a parameter with a type annotation
Annotated(p, class) == [p EXCEPT !.annotation = [k |-> "class", name |-> class]]

\* inspect.signature(f).parameters
Signature(f) ==
    CASE f = "g1" -> <<Param("a", "POSITIONAL_OR_KEYWORD", Empty),
                       Param("b", "POSITIONAL_OR_KEYWORD", Num(2)),
                       Param("args", "VAR_POSITIONAL", Empty),
                       Param("kw", "VAR_KEYWORD", Empty)>>
      [] f = "greeting_layout" -> <<Param("name", "POSITIONAL_OR_KEYWORD", Empty)>>
      [] f = "country_explorer_layout" ->
            <<Param("country", "POSITIONAL_OR_KEYWORD", Empty),
              Param("year", "POSITIONAL_OR_KEYWORD", Str("2007"))>>
      [] f = "keyword_only" -> <<Param("a", "POSITIONAL_OR_KEYWORD", Empty),
                                 Param("args", "VAR_POSITIONAL", Empty),
                                 Param("c", "KEYWORD_ONLY", Num(3)),
                                 Param("d", "KEYWORD_ONLY", Empty),
                                 Param("kw", "VAR_KEYWORD", Empty)>>
      [] f = "none_default" -> <<Param("a", "POSITIONAL_OR_KEYWORD", None)>>
      [] f = "collectors_only" -> <<Param("args", "VAR_POSITIONAL", Empty),
                                    Param("kw", "VAR_KEYWORD", Empty)>>
      [] f = "annotated" ->
            <<Annotated(Param("n", "POSITIONAL_OR_KEYWORD", Num(1)), "int")>>
      [] OTHER -> <<>>

\* inspect.signature(f) returns: it raises ValueError for a callable whose
\* signature cannot be read, such as some built-in functions
SignatureReadable(f) == f # "builtin"

\* callable(layout)
Callable(v) == v.k = "func"

PyStrKeepsValue(v) == v

\* str(v)
PyStr(v) ==
    CASE v.k = "str" -> v
      [] v.k = "int" -> Str(ToString(v.n))
      [] v.k = "none" -> Str("None")
      [] v.k = "class" -> Str("<class '" \o v.name \o "'>")
      [] OTHER -> Str("<object>")

\* one entry of get_function_parameters
ParamInfo(p) ==
    [name |-> p.name,
     has_default |-> p.default # Empty,
     default |-> IF p.default # Empty THEN p.default ELSE None,
     annotation |-> IF p.annotation # Empty THEN PyStr(p.annotation) ELSE None]

IsCatchAllMissesKeywords(p) == p.kind = "VAR_POSITIONAL"

\* param.kind in (VAR_POSITIONAL, VAR_KEYWORD)
IsCatchAll(p) == p.kind \in {"VAR_POSITIONAL", "VAR_KEYWORD"}

KeptParamsDropsDefaults(sig) ==
    SelectSeq(sig, LAMBDA p : ~IsCatchAll(p) /\ p.default = Empty)

\* the parameters get_function_parameters keeps
KeptParams(sig) == SelectSeq(sig, LAMBDA p : ~IsCatchAll(p))

\* get_function_parameters(func)
GetFunctionParameters(func) ==
    IF ~Callable(func) THEN <<>>
    ELSE IF ~SignatureReadable(func.f) THEN <<>>
    ELSE [i \in 1..Len(KeptParams(Signature(func.f))) |->
             ParamInfo(KeptParams(Signature(func.f))[i])]

\* the parameters a call without arguments leaves unbound
MissingArguments(f, nargs) ==
    {i \in 1..Len(Signature(f)) :
        /\ ~IsCatchAll(Signature(f)[i])
        /\ Signature(f)[i].default = Empty
        /\ i > nargs}

\* the component a function body builds
ProducerBody(f) == [props |-> [id |-> Str(f)], cprops |-> <<>>]

\* the body of f raises instead of building a component
BodyRaises(f) == f = "failing"

\* the exception the body of a failing function raises
ProducerError == "RuntimeError: layout failed"

----------------------------------------------------------------------------
(* LayoutRegistry *)

\* the truth value of an optional argument: `x or default`
Truthy(v) == v # None /\ v # Str("") /\ v # List(<<>>) /\ v # Dict(NoProps)

IsPair(v) == v.k = "tuple" /\ Len(v.items) = 2

\* register: parameter_options into the stored, string-valued form
ProcessOptions(parameter_options) ==
    IF ~Truthy(parameter_options) THEN None
    ELSE Dict([key \in {k \in DOMAIN parameter_options.m : IsPair(parameter_options.m[k])} |->
                 Dict([description |-> parameter_options.m[key].items[1],
                       params |-> Dict([n \in DOMAIN parameter_options.m[key].items[2].m |->
                                          PyStr(parameter_options.m[key].items[2].m[n])])])])

RegisterErrorNoDuplicateCheck(ls, layout_id) ==
    IF layout_id = "" THEN "ValueError: layout_id cannot be empty" ELSE "ok"

\* register: the checks before anything is stored
RegisterError(ls, layout_id) ==
    IF layout_id = "" THEN "ValueError: layout_id cannot be empty"
    ELSE IF layout_id \in DOMAIN ls THEN "ValueError: already registered"
    ELSE "ok"

\* register: the record stored
LayoutRecord(layout_id, layout, opt) ==
    [id |-> layout_id,
     layout |-> layout,
     name |-> IF Truthy(opt.name) THEN opt.name ELSE Str(layout_id),
     description |-> IF Truthy(opt.description) THEN opt.description ELSE Str(""),
     keywords |-> IF Truthy(opt.keywords) THEN opt.keywords ELSE List(<<>>),
     static |-> opt.static,
     allow_multiple |-> opt.allow_multiple,
     parameters |-> IF Callable(layout) THEN GetFunctionParameters(layout) ELSE <<>>,
     parameter_options |-> ProcessOptions(opt.parameter_options)]

StoreRecordThenFill(ls, layout_id, record) ==
    (layout_id :> [id |-> record.id]) @@ ls

\* cls._layouts[layout_id] = {...}: one store of the finished dict
StoreRecord(ls, layout_id, record) == (layout_id :> record) @@ ls

\* LayoutRegistry.register with the keyword arguments opt, called as op when
\* the heap is h (as constructed: h0)
RegistryRegister(op, layout_id, layout, opt, h, h0) ==
    /\ layouts' = IF RegisterError(layouts, layout_id) = "ok"
                  THEN StoreRecord(layouts, layout_id,
                                   LayoutRecord(layout_id, layout, opt))
                  ELSE layouts
    /\ pristine' = IF RegisterError(layouts, layout_id) = "ok"
                       /\ Struct(h, layout) = Struct(h0, layout)
                   THEN pristine \cup {layout_id}
                   ELSE pristine
    /\ ret' = Result(op, layout_id, "", RegisterError(layouts, layout_id), layout, <<>>)

WithoutKeepsNothing(f, x) == [y \in {} |-> f[y]]

\* del f[x]
Without(f, x) == [y \in DOMAIN f \ {x} |-> f[y]]

----------------------------------------------------------------------------
(* Inputs of the registry runs *)

MaxCalls == 2

LayoutIds == {"", "home", "chart"}
TabLayoutIds == {"home", "chart"}
StaticLayouts == {Comp(1)}
ProducerFuncs == {"f0"}
DecoratedFuncs == {"g0", "g1"}
LazyProducerFuncs == {"f0", "failing"}
LazyDecoratedFuncs == {"g0", "collectors_only", "builtin", "none_default", "failing"}
AllFuncs == ProducerFuncs \cup DecoratedFuncs \cup LazyProducerFuncs
               \cup LazyDecoratedFuncs
LayoutArgs == StaticLayouts \cup {Func(f) : f \in ProducerFuncs}

DefaultOptions ==
    [name |-> None, description |-> None, keywords |-> None, static |-> TRUE,
     allow_multiple |-> FALSE, parameter_options |-> None]

FullOptions ==
    [name |-> Str("Home"), description |-> Str("Home page"),
     keywords |-> List(<<Str("main")>>), static |-> FALSE, allow_multiple |-> TRUE,
     parameter_options |->
        Dict([fast |-> Tuple(<<Str("Quick"), Dict([speed |-> Str("fast"),
                                                     depth |-> Num(1)])>>)])]

Options == {DefaultOptions, FullOptions}

\* the static layout of the application: a root with MaxItems children
StaticHeap ==
    ShapeHeap("children_list",
              [a \in 1..NNodes |-> IF a = 1 THEN Str("a")
                                   ELSE IF a = 2 THEN Str("b")
                                   ELSE Dict([type |-> Str("bar")])])

CanAllocate == Len(heap) < NNodes + MaxCalls

----------------------------------------------------------------------------
(* Operations of the registry runs *)

Init ==
    /\ heap = StaticHeap
    /\ heap0 = StaticHeap
    /\ layouts = NoLayouts
    /\ pristine = {}
    /\ calls = [f \in AllFuncs |-> 0]
    /\ decorated = [f \in {} |-> None]
    /\ ret = NoResult
    /\ input = None
    /\ passes = <<>>
    /\ locals = NoLocals

RunBodyTwice(f) ==
    /\ heap' = Append(heap, ProducerBody(f))
    /\ heap0' = Append(heap0, ProducerBody(f))
    /\ calls' = [calls EXCEPT ![f] = @ + 2]

\* the body of f runs and builds a component
RunBody(f) ==
    /\ heap' = Append(heap, ProducerBody(f))
    /\ heap0' = Append(heap0, ProducerBody(f))
    /\ calls' = [calls EXCEPT ![f] = @ + 1]

\* the body of f runs and raises
RaiseBody(f) ==
    /\ calls[f] < MaxCalls
    /\ calls' = [calls EXCEPT ![f] = @ + 1]
    /\ UNCHANGED <<heap, heap0>>

PropagatedErrorSuppressed(error) == "ok"

\* an exception of the producer passes through the registry and the
\* decorator as raised: neither has a try statement
PropagatedError(error) == error

\* LayoutRegistry.register(layout_id, layout, ...)
Register(layout_id, layout, opt) ==
    /\ RegistryRegister("register", layout_id, layout, opt, heap, heap0)
    /\ UNCHANGED <<heap, heap0, calls, decorated, input, passes, locals>>

\* register_layout(layout_id, layout, ...)
RegisterLayout(layout_id, layout, opt) ==
    /\ RegistryRegister("register_layout", layout_id, layout,
                        [opt EXCEPT !.static = DefaultOptions.static,
                                    !.parameter_options =
                                        DefaultOptions.parameter_options],
                        heap, heap0)
    /\ UNCHANGED <<heap, heap0, calls, decorated, input, passes, locals>>

CallbackLayoutStoresFunction(f, layout_component) == Func(f)

\* the layout the decorator registers for a function without parameters
CallbackLayout(f, layout_component) == layout_component

\* register_layout_callback(layout_id, ...)(func)
RegisterLayoutCallback(layout_id, f, opt) ==
    /\ f \notin DOMAIN decorated
    /\ IF Len(GetFunctionParameters(Func(f))) > 0
       THEN /\ RegistryRegister("register_layout_callback", layout_id, Func(f),
                                [opt EXCEPT !.static = FALSE], heap, heap0)
            /\ decorated' = (f :> IF RegisterError(layouts, layout_id) = "ok"
                                  THEN [kind |-> "forward"]
                                  ELSE [kind |-> "raised"]) @@ decorated
            /\ UNCHANGED <<heap, heap0, calls>>
       ELSE IF BodyRaises(f)
       THEN /\ RaiseBody(f)
            /\ ret' = Result("register_layout_callback", layout_id, "",
                             PropagatedError(ProducerError), None, <<>>)
            /\ decorated' = (f :> [kind |-> "raised"]) @@ decorated
            /\ UNCHANGED <<layouts, pristine>>
       ELSE /\ CanAllocate
            /\ RunBody(f)
            /\ RegistryRegister("register_layout_callback", layout_id,
                                CallbackLayout(f, Comp(Len(heap) + 1)),
                                [opt EXCEPT !.static = FALSE,
                                            !.parameter_options =
                                                DefaultOptions.parameter_options],
                                heap', heap0')
            /\ decorated' = (f :> IF RegisterError(layouts, layout_id) = "ok"
                                  THEN [kind |-> "cached", value |-> Comp(Len(heap) + 1),
                                        id |-> layout_id]
                                  ELSE [kind |-> "raised"]) @@ decorated
    /\ UNCHANGED <<input, passes, locals>>

ForwardedArgumentsDropped(nargs) == 0

\* the arguments of func(*args, **kwargs) in the wrapper of a function
\* with parameters
ForwardedArguments(nargs) == nargs

\* the wrapper the decorator returned for f, called with nargs arguments
CallWrapper(f, nargs) ==
    /\ f \in DOMAIN decorated
    /\ decorated[f].kind # "raised"
    /\ IF decorated[f].kind = "cached"
       THEN /\ ret' = IF nargs = 0
                      THEN Result("wrapper", f, "", "ok", decorated[f].value, <<>>)
                      ELSE Result("wrapper", f, "", "TypeError", None, <<>>)
            /\ UNCHANGED <<heap, heap0, calls>>
       ELSE IF MissingArguments(f, ForwardedArguments(nargs)) # {}
       THEN /\ ret' = Result("wrapper", f, "", "TypeError", None, <<>>)
            /\ UNCHANGED <<heap, heap0, calls>>
       ELSE /\ CanAllocate
            /\ RunBody(f)
            /\ ret' = Result("wrapper", f, "", "ok", Comp(Len(heap) + 1), <<>>)
    /\ UNCHANGED <<layouts, pristine, decorated, input, passes, locals>>

\* the callers' variables once the registry has dropped the records of ids:
\* a mapping a caller holds keeps the dropped record objects, which are then
\* no object of the registry any more
Detached(ls, ids) ==
    [c \in DOMAIN ls |-> [ls[c] EXCEPT !.shared = @ \ ids]]

\* LayoutRegistry.unregister(layout_id)
Unregister(layout_id) ==
    /\ layouts' = IF layout_id \in DOMAIN layouts THEN Without(layouts, layout_id)
                  ELSE layouts
    /\ pristine' = pristine \ {layout_id}
    /\ locals' = Detached(locals, {layout_id})
    /\ ret' = Result("unregister", layout_id, "", "ok", None, <<>>)
    /\ UNCHANGED <<heap, heap0, calls, decorated, input, passes>>

LayoutsGetPlaceholder(ls, layout_id) ==
    IF layout_id \in DOMAIN ls THEN [k |-> "record", r |-> ls[layout_id]]
    ELSE [k |-> "record", r |-> [layout |-> None]]

\* cls._layouts.get(layout_id)
LayoutsGet(ls, layout_id) ==
    IF layout_id \in DOMAIN ls THEN [k |-> "record", r |-> ls[layout_id]] ELSE None

\* LayoutRegistry.get_layout(layout_id)
GetLayout(layout_id) ==
    /\ ret' = Result("get_layout", layout_id, "", "ok", LayoutsGet(layouts, layout_id),
                     <<>>)
    /\ UNCHANGED <<heap, heap0, layouts, pristine, calls, decorated, input, passes, locals>>

\* LayoutRegistry.get_all_layouts()
GetAllLayouts ==
    /\ ret' = Result("get_all_layouts", "", "", "ok", [k |-> "layouts", m |-> layouts],
                     <<>>)
    /\ UNCHANGED <<heap, heap0, layouts, pristine, calls, decorated, input, passes, locals>>

\* LayoutRegistry.clear()
Clear ==
    /\ layouts' = NoLayouts
    /\ pristine' = {}
    /\ locals' = Detached(locals, DOMAIN layouts)
    /\ ret' = Result("clear", "", "", "ok", None, <<>>)
    /\ UNCHANGED <<heap, heap0, calls, decorated, input, passes>>

\* resolve_layout after layout_info = cls.get_layout(layout_id)
ResolveInfo(layout_id, layout_info) ==
    IF layout_info = None
    THEN /\ ret' = Result("resolve_layout", layout_id, "", "ok", None, <<>>)
         /\ UNCHANGED <<heap, heap0, calls>>
    ELSE IF Callable(layout_info.r.layout)
    THEN IF MissingArguments(layout_info.r.layout.f, 0) # {}
         THEN /\ ret' = Result("resolve_layout", layout_id, "", "TypeError", None, <<>>)
              /\ UNCHANGED <<heap, heap0, calls>>
         ELSE IF BodyRaises(layout_info.r.layout.f)
         THEN /\ RaiseBody(layout_info.r.layout.f)
              /\ ret' = Result("resolve_layout", layout_id, "",
                               PropagatedError(ProducerError), None, <<>>)
         ELSE /\ CanAllocate
              /\ RunBody(layout_info.r.layout.f)
              /\ ret' = Result("resolve_layout", layout_id, "", "ok",
                               Comp(Len(heap) + 1), <<>>)
    ELSE /\ ret' = Result("resolve_layout", layout_id, "", "ok", layout_info.r.layout,
                          <<>>)
         /\ UNCHANGED <<heap, heap0, calls>>

\* LayoutRegistry.resolve_layout(layout_id)
ResolveLayout(layout_id) ==
    /\ ResolveInfo(layout_id, LayoutsGet(layouts, layout_id))
    /\ UNCHANGED <<layouts, pristine, decorated, input, passes, locals>>

InjectResolvedDone(r, layout_id, tab_id) ==
    /\ heap' = r.h
    /\ ret' = Result("inject", layout_id, tab_id, "ok", r.v, r.log)

\* inject_tab_id(tree, tab_id) on the tree resolve_layout just returned
InjectResolved(tab_id) ==
    /\ ret.op = "resolve_layout"
    /\ ret.outcome = "ok"
    /\ ret.value # None
    /\ InjectResolvedDone(InjectTabId(heap, ret.value, tab_id), ret.id, tab_id)
    /\ UNCHANGED <<heap0, layouts, pristine, calls, decorated, input, passes, locals>>

\* registry runs: every operation of the registry and of the decorator
Next ==
    \/ \E layout_id \in LayoutIds, layout \in LayoutArgs, opt \in Options :
          Register(layout_id, layout, opt)
    \/ \E layout_id \in LayoutIds, layout \in LayoutArgs :
          RegisterLayout(layout_id, layout, FullOptions)
    \/ \E layout_id \in LayoutIds, f \in DecoratedFuncs :
          RegisterLayoutCallback(layout_id, f, FullOptions)
    \/ \E f \in DecoratedFuncs, nargs \in {0, 1} : CallWrapper(f, nargs)
    \/ \E layout_id \in LayoutIds : Unregister(layout_id)
    \/ \E layout_id \in LayoutIds : GetLayout(layout_id)
    \/ GetAllLayouts
    \/ Clear
    \/ \E layout_id \in LayoutIds : ResolveLayout(layout_id)

Spec == Init /\ [][Next]_vars

\* tab runs: a tab manager registers layouts, resolves them for tab instances
\* and injects the instance id into what it resolved
TabNext ==
    \/ \E layout_id \in TabLayoutIds, layout \in LayoutArgs, opt \in Options :
          Register(layout_id, layout, opt)
    \/ \E layout_id \in TabLayoutIds : Unregister(layout_id)
    \/ \E layout_id \in TabLayoutIds : ResolveLayout(layout_id)
    \/ \E tab_id \in TabIds : InjectResolved(tab_id)

TabSpec == Init /\ [][TabNext]_vars

----------------------------------------------------------------------------
(* Record runs: what register stores for every kind of function and of     *)
(* preset mapping, and what the readers of the records return              *)

RecordIds == {"", " ", "home"}

IntrospectFuncs ==
    {"f0", "g1", "greeting_layout", "country_explorer_layout", "keyword_only",
     "none_default", "collectors_only", "annotated", "builtin"}

RecordLayouts == StaticLayouts \cup {Func(f) : f \in IntrospectFuncs}

QuickPreset ==
    Tuple(<<Str("Quick"), Dict([speed |-> Str("fast"), depth |-> Num(1)])>>)

DeepPreset == Tuple(<<Str("Thorough"), Dict([speed |-> None, depth |-> Num(10)])>>)

\* parameter_options arguments: none, empty, (description, params) pairs, and
\* values of other shapes
PresetChoices ==
    {None,
     Dict(NoProps),
     Dict([fast |-> QuickPreset]),
     Dict([fast |-> QuickPreset, deep |-> DeepPreset]),
     Dict([fast |-> List(QuickPreset.items)]),
     Dict([fast |-> QuickPreset, deep |-> Tuple(DeepPreset.items \o <<Num(0)>>)]),
     Dict([fast |-> Str("Quick")])}

WithPresets(parameter_options) ==
    [DefaultOptions EXCEPT !.parameter_options = parameter_options]

\* get_function_parameters(func), called by the application
Introspect(func) ==
    /\ ret' = Result("get_function_parameters", IF Callable(func) THEN func.f ELSE "",
                     "", "ok", GetFunctionParameters(func), <<>>)
    /\ UNCHANGED <<heap, heap0, layouts, pristine, calls, decorated, input, passes, locals>>

\* get_registered_layouts_metadata: one entry of serializable_params
SerializableParam(p) ==
    [name |-> p.name,
     hasDefault |-> p.has_default,
     default |-> IF p.default # None THEN p.default ELSE None,
     annotation |-> p.annotation]

\* get_registered_layouts_metadata: metadata[layout_id]
MetadataEntry(layout_info) ==
    [name |-> layout_info.name,
     description |-> layout_info.description,
     keywords |-> layout_info.keywords,
     allowMultiple |-> layout_info.allow_multiple,
     parameters |-> [i \in 1..Len(layout_info.parameters) |->
                        SerializableParam(layout_info.parameters[i])],
     parameterOptions |-> layout_info.parameter_options]

\* get_registered_layouts_metadata()
GetRegisteredLayoutsMetadata ==
    /\ ret' = Result("get_registered_layouts_metadata", "", "", "ok",
                     [k |-> "metadata",
                      m |-> [layout_id \in DOMAIN layouts |->
                                MetadataEntry(layouts[layout_id])]], <<>>)
    /\ UNCHANGED <<heap, heap0, layouts, pristine, calls, decorated, input, passes, locals>>

RecordNext ==
    \/ \E layout_id \in RecordIds, layout \in RecordLayouts :
          Register(layout_id, layout, DefaultOptions)
    \/ \E layout_id \in RecordIds, parameter_options \in PresetChoices :
          Register(layout_id, Func("g1"), WithPresets(parameter_options))
    \/ \E layout_id \in RecordIds : RegisterLayoutCallback(layout_id, "g1", FullOptions)
    \/ \E func \in RecordLayouts : Introspect(func)
    \/ \E layout_id \in RecordIds : GetLayout(layout_id)
    \/ \E layout_id \in RecordIds : Unregister(layout_id)
    \/ GetRegisteredLayoutsMetadata

RecordSpec == Init /\ [][RecordNext]_vars

----------------------------------------------------------------------------
(* Snapshot runs: a caller keeps the mapping get_all_layouts returned and  *)
(* changes it.  The mapping is a new dict whose values are the record      *)
(* objects of the registry: all_layouts is what the caller sees through    *)
(* it, shared the ids whose record is still the object the registry holds. *)

Callers == {"c1"}

\* a record a caller builds itself
CallerRecord == [id |-> "mine", layout |-> None, name |-> Str("mine")]

\* the writes a caller makes to a field of a record
FieldWrites == {<<"name", Str("changed")>>, <<"layout", Comp(2)>>}

\* all_layouts = LayoutRegistry.get_all_layouts(), kept by caller c
TakeSnapshot(c) ==
    /\ locals' = (c :> [all_layouts |-> layouts, shared |-> DOMAIN layouts]) @@ locals
    /\ ret' = Result("get_all_layouts", "", "", "ok", [k |-> "layouts", m |-> layouts],
                     <<>>)
    /\ UNCHANGED <<heap, heap0, layouts, pristine, calls, decorated, input, passes>>

\* all_layouts[layout_id] = {...}, by caller c
SnapshotAdd(c, layout_id) ==
    /\ c \in DOMAIN locals
    /\ locals' = [locals EXCEPT ![c].all_layouts = (layout_id :> CallerRecord) @@ @,
                                ![c].shared = @ \ {layout_id}]
    /\ UNCHANGED <<heap, heap0, layouts, pristine, calls, decorated, ret, input, passes>>

\* del all_layouts[layout_id], by caller c
SnapshotDelete(c, layout_id) ==
    /\ c \in DOMAIN locals
    /\ layout_id \in DOMAIN locals[c].all_layouts
    /\ locals' = [locals EXCEPT ![c].all_layouts = Without(@, layout_id),
                                ![c].shared = @ \ {layout_id}]
    /\ UNCHANGED <<heap, heap0, layouts, pristine, calls, decorated, ret, input, passes>>

\* all_layouts[layout_id][field] = value, by caller c: a store into the
\* record object, which the registry sees when the object is its own
SnapshotSetField(c, layout_id, field, value) ==
    /\ c \in DOMAIN locals
    /\ layout_id \in DOMAIN locals[c].all_layouts
    /\ locals' = [locals EXCEPT ![c].all_layouts[layout_id][field] = value]
    /\ layouts' = IF layout_id \in locals[c].shared
                  THEN [layouts EXCEPT ![layout_id][field] = value]
                  ELSE layouts
    /\ UNCHANGED <<heap, heap0, pristine, calls, decorated, ret, input, passes>>

SnapshotNext ==
    \/ \E layout_id \in TabLayoutIds : Register(layout_id, Comp(1), DefaultOptions)
    \/ \E layout_id \in TabLayoutIds : Unregister(layout_id)
    \/ Clear
    \/ \E c \in Callers : TakeSnapshot(c)
    \/ \E c \in Callers, layout_id \in TabLayoutIds \cup {"mine"} :
          SnapshotAdd(c, layout_id)
    \/ \E c \in Callers, layout_id \in TabLayoutIds : SnapshotDelete(c, layout_id)
    \/ \E c \in Callers, layout_id \in TabLayoutIds, w \in FieldWrites :
          SnapshotSetField(c, layout_id, w[1], w[2])
    \/ \E layout_id \in TabLayoutIds : GetLayout(layout_id)
    \/ \E layout_id \in TabLayoutIds : ResolveLayout(layout_id)
    \/ GetAllLayouts

SnapshotSpec == Init /\ [][SnapshotNext]_vars

----------------------------------------------------------------------------
(* Concurrent runs: threads of the host call register at the same time,    *)
(* while others read.  The code takes no lock, so the steps of a register  *)
(* call interleave with every other thread between its accesses to         *)
(* _layouts: the checks read it, the final statement stores into it.       *)

Threads == {"t1", "t2"}

ThreadLayouts == {Comp(1), Comp(2)}

Idle == [pc |-> "idle"]

ConcInit ==
    /\ heap = StaticHeap
    /\ heap0 = StaticHeap
    /\ layouts = NoLayouts
    /\ pristine = {}
    /\ calls = [f \in AllFuncs |-> 0]
    /\ decorated = [f \in {} |-> None]
    /\ ret = NoResult
    /\ input = None
    /\ passes = <<>>
    /\ locals = [t \in Threads |-> Idle]

\* thread t calls LayoutRegistry.register(layout_id, layout)
ThreadCall(t, layout_id, layout) ==
    /\ locals[t].pc \in {"idle", "done"}
    /\ locals' = [locals EXCEPT ![t] = [pc |-> "check", layout_id |-> layout_id,
                                        layout |-> layout]]
    /\ UNCHANGED <<heap, heap0, layouts, pristine, calls, decorated, ret, input, passes>>

\* register in thread t: the checks, then the record is built
ThreadCheck(t) ==
    /\ locals[t].pc = "check"
    /\ locals' = [locals EXCEPT ![t] =
                    IF RegisterError(layouts, locals[t].layout_id) = "ok"
                    THEN [pc |-> "store", layout_id |-> locals[t].layout_id,
                          layout |-> locals[t].layout,
                          record |-> LayoutRecord(locals[t].layout_id, locals[t].layout,
                                                  DefaultOptions)]
                    ELSE [pc |-> "done", layout_id |-> locals[t].layout_id,
                          layout |-> locals[t].layout,
                          outcome |-> RegisterError(layouts, locals[t].layout_id)]]
    /\ UNCHANGED <<heap, heap0, layouts, pristine, calls, decorated, ret, input, passes>>

\* register in thread t: the record is stored and the call returns
ThreadStore(t) ==
    /\ locals[t].pc = "store"
    /\ layouts' = StoreRecord(layouts, locals[t].layout_id, locals[t].record)
    /\ pristine' = IF Struct(heap, locals[t].layout) = Struct(heap0, locals[t].layout)
                   THEN pristine \cup {locals[t].layout_id}
                   ELSE pristine \ {locals[t].layout_id}
    /\ locals' = [locals EXCEPT ![t] = [pc |-> "done", layout_id |-> locals[t].layout_id,
                                        layout |-> locals[t].layout, outcome |-> "ok"]]
    /\ UNCHANGED <<heap, heap0, calls, decorated, ret, input, passes>>

ConcNext ==
    \/ \E t \in Threads, layout_id \in TabLayoutIds, layout \in ThreadLayouts :
          ThreadCall(t, layout_id, layout)
    \/ \E t \in Threads : ThreadCheck(t)
    \/ \E t \in Threads : ThreadStore(t)
    \/ \E layout_id \in TabLayoutIds : GetLayout(layout_id)
    \/ \E layout_id \in TabLayoutIds : ResolveLayout(layout_id)
    \/ GetAllLayouts

ConcSpec == ConcInit /\ [][ConcNext]_vars

----------------------------------------------------------------------------
(* Parallel runs: two tab instances are materialized at the same time.     *)
(* Each process resolves a layout and runs inject_tab_id on what it got,   *)
(* under its own instance id.  A pass visits the components in the order   *)
(* of walk_layout; at each one the transform reads the identifier and then *)
(* stores the new one, and the other process may run in between.  The pass *)
(* changes identifiers only, so the order of the visits is the order of a  *)
(* pass over the tree as resolved.                                         *)

MultipleOptions == [DefaultOptions EXCEPT !.allow_multiple = TRUE]

\* the application has registered a tree and a function at start-up
ParInit ==
    /\ heap = StaticHeap
    /\ heap0 = StaticHeap
    /\ layouts = StoreRecord(StoreRecord(NoLayouts, "home",
                                         LayoutRecord("home", Comp(1), MultipleOptions)),
                             "chart", LayoutRecord("chart", Func("f0"), MultipleOptions))
    /\ pristine = {"home", "chart"}
    /\ calls = [f \in AllFuncs |-> 0]
    /\ decorated = [f \in {} |-> None]
    /\ ret = NoResult
    /\ input = None
    /\ passes = <<>>
    /\ locals = [tab_id \in TabIds |-> Idle]

\* process tab_id: tree = LayoutRegistry.resolve_layout(layout_id), and
\* inject_tab_id(tree, tab_id) begins
ParResolve(tab_id, layout_id) ==
    /\ locals[tab_id].pc = "idle"
    /\ ResolveInfo(layout_id, LayoutsGet(layouts, layout_id))
    /\ locals' = [locals EXCEPT ![tab_id] =
                    [pc |-> "read", tree |-> ret'.value,
                     todo |-> InjectTabId(heap', ret'.value, tab_id).log]]
    /\ UNCHANGED <<layouts, pristine, decorated, input, passes>>

\* transform in process tab_id: the component's id is read
ParRead(tab_id) ==
    /\ locals[tab_id].pc = "read"
    /\ locals' = [locals EXCEPT ![tab_id] =
                    [pc |-> "write", tree |-> locals[tab_id].tree,
                     todo |-> locals[tab_id].todo,
                     seen |-> heap[Head(locals[tab_id].todo)]]]
    /\ UNCHANGED <<heap, heap0, layouts, pristine, calls, decorated, ret, input, passes>>

\* the component at a after the transform of tab_id acted on what it read
Transformed(seen, a, tab_id) ==
    InjectorTransform([heap EXCEPT ![a] = seen], a, tab_id)[a]

\* transform in process tab_id: the new id, made from the id read, is stored
\* if the transform changes the id at all; the walk moves on
ParWrite(tab_id) ==
    /\ locals[tab_id].pc = "write"
    /\ heap' = IF Transformed(locals[tab_id].seen, Head(locals[tab_id].todo), tab_id)
                     = locals[tab_id].seen
               THEN heap
               ELSE SetAttr(heap, Head(locals[tab_id].todo), "id",
                            Transformed(locals[tab_id].seen, Head(locals[tab_id].todo),
                                        tab_id).props.id)
    /\ locals' = [locals EXCEPT ![tab_id] =
                    [pc |-> IF Len(locals[tab_id].todo) = 1 THEN "done" ELSE "read",
                     tree |-> locals[tab_id].tree,
                     todo |-> Tail(locals[tab_id].todo)]]
    /\ UNCHANGED <<heap0, layouts, pristine, calls, decorated, ret, input, passes>>

ParNext ==
    \/ \E tab_id \in TabIds, layout_id \in TabLayoutIds : ParResolve(tab_id, layout_id)
    \/ \E tab_id \in TabIds : ParRead(tab_id)
    \/ \E tab_id \in TabIds : ParWrite(tab_id)

ParSpec == ParInit /\ [][ParNext]_vars

----------------------------------------------------------------------------
(* Lazy runs: producers that build a layout or raise, registered and     *)
(* resolved.                                                               *)

LazyIds == {"home", "chart"}

LazyNext ==
    \/ \E layout_id \in LazyIds, f \in LazyProducerFuncs, opt \in Options :
          Register(layout_id, Func(f), opt)
    \/ \E layout_id \in LazyIds : Unregister(layout_id)
    \/ \E layout_id \in LazyIds : GetLayout(layout_id)
    \/ \E layout_id \in LazyIds : ResolveLayout(layout_id)

LazySpec == Init /\ [][LazyNext]_vars

\* decorator runs: register_layout_callback over functions of every kind of
\* signature, and calls of what it registered and returned
DecoratorNext ==
    \/ \E layout_id \in LayoutIds, f \in LazyDecoratedFuncs :
          RegisterLayoutCallback(layout_id, f, FullOptions)
    \/ \E f \in LazyDecoratedFuncs, nargs \in {0, 1} : CallWrapper(f, nargs)
    \/ \E layout_id \in LazyIds : Unregister(layout_id)
    \/ \E layout_id \in LazyIds : ResolveLayout(layout_id)

DecoratorSpec == Init /\ [][DecoratorNext]_vars

----------------------------------------------------------------------------
(* Properties of the registry and of the decorator, over the registry runs *)

RegisterOps == {"register", "register_layout", "register_layout_callback"}

DuplicateError == "ValueError: already registered"

\* C1: a register call (direct or through register_layout or the
\* register_layout_callback decorator) for an id that is already registered
\* fails with the duplicate error and leaves the registry as it was, so the
\* record of the first registration stays.
C1_DuplicateRegisterRejected ==
    [][\A id \in DOMAIN layouts :
          (ret'.op \in RegisterOps /\ ret'.id = id) =>
              /\ ret'.outcome = DuplicateError
              /\ layouts' = layouts]_vars

\* a second registration with another layout was rejected
C1_Witness ==
    /\ ret.op \in RegisterOps
    /\ ret.outcome = DuplicateError
    /\ ret.id \in DOMAIN layouts
    /\ ret.value # layouts[ret.id].layout

C10_UnknownIdIsAbsent ==
    [][\A id \in LayoutIds \ DOMAIN layouts :
          (ret'.op \in {"get_layout", "resolve_layout"} /\ ret'.id = id) =>
              /\ ret'.outcome = "ok"
              /\ ret'.value = None
              /\ layouts' = layouts
              /\ heap' = heap
              /\ calls' = calls]_vars

\* resolve of an id that was registered by the decorator and removed since
C10_Witness ==
    /\ ret.op = "resolve_layout"
    /\ ret.id \notin DOMAIN layouts
    /\ ret.value = None
    /\ \E f \in DOMAIN decorated :
          decorated[f].kind = "cached" /\ decorated[f].id = ret.id

\* C14: unregister of an id that is not registered raises nothing and
\* leaves the registry unchanged; unregister of a registered id removes that
\* record and leaves the record of every other id as it was.
C14_UnregisterRemovesOnlyItsRecord ==
    [][\A id \in LayoutIds :
          (ret'.op = "unregister" /\ ret'.id = id) =>
              /\ ret'.outcome = "ok"
              /\ id \notin DOMAIN layouts => layouts' = layouts
              /\ id \in DOMAIN layouts =>
                    /\ DOMAIN layouts' = DOMAIN layouts \ {id}
                    /\ \A other \in DOMAIN layouts' : layouts'[other] = layouts[other]]_vars

\* a record registered by the decorator was unregistered while another
\* record stays
C14_Witness ==
    /\ ret.op = "unregister"
    /\ ret.id \notin DOMAIN layouts
    /\ layouts # NoLayouts
    /\ \E f \in DOMAIN decorated :
          decorated[f].kind = "cached" /\ decorated[f].id = ret.id

\* C15: the static flag of every record equals not callable(layout), for
\* records made by register, by register_layout and by both paths of the
\* register_layout_callback decorator.
C15_StaticIffNotCallable ==
    \A id \in DOMAIN layouts :
        layouts[id].static = ~Callable(layouts[id].layout)

----------------------------------------------------------------------------
(* Properties of resolve followed by inject, over the tab runs *)

\* the layout of id is a tree (not a producer), registered as constructed
MaterializedPristine(id) ==
    /\ id \in pristine
    /\ ~Callable(layouts[id].layout)

\* C2: for a materialized layout registered with allow_multiple whose nodes
\* carry plain string identifiers s, every inject(resolve(id), t) gives a tree
\* in which each such node has the identifier {type: s, index: t}, whatever
\* instances were materialized before.
C2_EveryInstanceGetsItsIndex ==
    (/\ ret.op = "inject"
     /\ MaterializedPristine(ret.id)
     /\ layouts[ret.id].allow_multiple) =>
        \A a \in ChildrenReach(heap0, layouts[ret.id].layout) :
            HasStringId(heap0[a]) =>
                heap[a].props.id = PatternId(heap0[a].props.id.s, ret.tab)

\* C3: after register(id, T) with a materialized tree T, every later
\* resolve(id) returns a tree structurally equal to T as registered, whatever
\* reads and inject passes happened in between.
C3_ResolveReturnsRegisteredTree ==
    (/\ ret.op = "resolve_layout"
     /\ ret.outcome = "ok"
     /\ MaterializedPristine(ret.id)) =>
        Struct(heap, ret.value) = Struct(heap0, layouts[ret.id].layout)

----------------------------------------------------------------------------
(* Properties of the stored records and of their readers, over the record  *)
(* runs                                                                    *)

\* the positions of the formal parameters of f that are not collectors
FormalPositions(f) ==
    {j \in 1..Len(Signature(f)) :
        Signature(f)[j].kind \notin {"VAR_POSITIONAL", "VAR_KEYWORD"}}

\* params lists the formal parameters of f that are not collectors, in
\* declaration order, each with its default
ExactlyFormals(f, params) ==
    /\ Len(params) = Cardinality(FormalPositions(f))
    /\ \A j \in FormalPositions(f) :
          LET rank == Cardinality({k \in FormalPositions(f) : k <= j})
          IN  /\ params[rank].name = Signature(f)[j].name
              /\ params[rank].has_default = (Signature(f)[j].default # Empty)
              /\ params[rank].default = IF Signature(f)[j].default = Empty THEN None
                                        ELSE Signature(f)[j].default

\* C11: for every callable whose signature can be read, the extracted
\* parameter list holds exactly its formal parameters that are not *args or
\* **kwargs collectors, in declaration order, with has_default and default
\* set from the declaration; the parameters of every registered record are
\* that list, so they never hold a collector.
C11_ParametersAreTheFormals ==
    /\ (/\ ret.op = "get_function_parameters"
        /\ ret.id \in IntrospectFuncs
        /\ SignatureReadable(ret.id)) => ExactlyFormals(ret.id, ret.value)
    /\ \A id \in DOMAIN layouts :
          (Callable(layouts[id].layout) /\ SignatureReadable(layouts[id].layout.f)) =>
              ExactlyFormals(layouts[id].layout.f, layouts[id].parameters)

\* f(a, b=2, *args, **kw) was inspected and gave a and b = 2, while a record
\* holds a function that declares collectors
C11_Witness ==
    /\ ret.op = "get_function_parameters"
    /\ ret.id = "g1"
    /\ Len(ret.value) = 2
    /\ ret.value[1].name = "a" /\ ~ret.value[1].has_default
    /\ ret.value[2].name = "b" /\ ret.value[2].default = Num(2)
    /\ \E id \in DOMAIN layouts :
          /\ Callable(layouts[id].layout)
          /\ layouts[id].layout.f = "keyword_only"
          /\ Len(layouts[id].parameters) = 3

\* the id is empty or holds only whitespace
Blank(layout_id) == layout_id \in {"", " "}

EmptyIdError == "ValueError: layout_id cannot be empty"

\* C12: register with an id that is empty or blank fails with the invalid-id
\* error, and no record of the registry has an empty or blank id.
C12_BlankIdRejected ==
    /\ (ret.op \in RegisterOps /\ Blank(ret.id)) => ret.outcome = EmptyIdError
    /\ \A id \in DOMAIN layouts : ~Blank(id)

\* the string form of a supplied value
IsStringFormOf(stored, supplied) ==
    /\ stored.k = "str"
    /\ supplied.k = "str" => stored = supplied
    /\ supplied.k = "int" => stored.s = ToString(supplied.n)
    /\ supplied.k = "none" => stored.s = "None"

\* stored has for key an entry {description, params} with the description and
\* the string forms of the values of the supplied (description, params) pair
PresetStored(stored, key, pair) ==
    /\ stored.k = "dict"
    /\ key \in DOMAIN stored.m
    /\ DOMAIN stored.m[key].m = {"description", "params"}
    /\ stored.m[key].m.description = pair.items[1]
    /\ DOMAIN stored.m[key].m.params.m = DOMAIN pair.items[2].m
    /\ \A n \in DOMAIN pair.items[2].m :
          IsStringFormOf(stored.m[key].m.params.m[n], pair.items[2].m[n])

\* a register call with the preset mapping parameter_options that succeeded
RegisteredWith(layout_id, parameter_options) ==
    /\ ret'.op = "register"
    /\ ret'.outcome = "ok"
    /\ Register(layout_id, Func("g1"), WithPresets(parameter_options))

\* C16 as stated: after register with a non-empty preset mapping, the record
\* has an entry {description, params} for every key given, no preset is
\* dropped, and every parameter value in it is a string.
C16_EveryPresetStored ==
    [][\A layout_id \in RecordIds, parameter_options \in PresetChoices :
          (RegisteredWith(layout_id, parameter_options) /\ Truthy(parameter_options)) =>
              /\ layouts'[layout_id].parameter_options.k = "dict"
              /\ \A key \in DOMAIN parameter_options.m :
                    /\ key \in DOMAIN layouts'[layout_id].parameter_options.m
                    /\ \A n \in DOMAIN layouts'[layout_id].parameter_options.m[key]
                                         .m.params.m :
                          layouts'[layout_id].parameter_options.m[key]
                              .m.params.m[n].k = "str"]_vars

\* a preset value of the documented format: a (description, params) 2-tuple
IsPresetPair(value) == value.k = "tuple" /\ Len(value.items) = 2

\* C16 amended: after register with a non-empty preset mapping, the record
\* has, for every key whose value is a (description, params) 2-tuple, the
\* entry {description, params} with every parameter value in its string
\* form; a key whose value has another shape has no entry.
C16_PairPresetsStored ==
    [][\A layout_id \in RecordIds, parameter_options \in PresetChoices :
          (RegisteredWith(layout_id, parameter_options) /\ Truthy(parameter_options)) =>
              /\ layouts'[layout_id].parameter_options.k = "dict"
              /\ \A key \in DOMAIN parameter_options.m :
                    IF IsPresetPair(parameter_options.m[key])
                    THEN PresetStored(layouts'[layout_id].parameter_options, key,
                                      parameter_options.m[key])
                    ELSE key \notin DOMAIN layouts'[layout_id].parameter_options.m]_vars

\* a record registered with two presets whose values are a string, numbers
\* and None
C16_Witness ==
    \E id \in DOMAIN layouts :
        /\ layouts[id].parameter_options.k = "dict"
        /\ DOMAIN layouts[id].parameter_options.m = {"fast", "deep"}
        /\ layouts[id].parameter_options.m.fast.m.params.m.depth = Str("1")
        /\ layouts[id].parameter_options.m.deep.m.params.m.depth = Str("10")
        /\ layouts[id].parameter_options.m.deep.m.params.m.speed = Str("None")

\* a value transported as a string, or absent
StringOrAbsent(v) == v = None \/ v.k = "str"

\* C17: in the mapping get_registered_layouts_metadata returns, every
\* parameter default and every preset parameter value is a string or absent.
C17_MetadataValuesAreStrings ==
    ret.op = "get_registered_layouts_metadata" =>
        \A id \in DOMAIN ret.value.m :
            /\ \A i \in 1..Len(ret.value.m[id].parameters) :
                  StringOrAbsent(ret.value.m[id].parameters[i].default)
            /\ ret.value.m[id].parameterOptions # None =>
                  \A key \in DOMAIN ret.value.m[id].parameterOptions.m :
                      \A n \in DOMAIN ret.value.m[id].parameterOptions.m[key].m.params.m :
                          StringOrAbsent(ret.value.m[id].parameterOptions.m[key]
                                             .m.params.m[n])

----------------------------------------------------------------------------
(* Properties of the mapping get_all_layouts returns, over the snapshot    *)
(* runs                                                                    *)

\* a caller changes the mapping it holds: it adds or deletes an entry, or
\* stores into a field of one of its records
SnapshotMutation ==
    \E c \in Callers :
        \/ \E layout_id \in TabLayoutIds \cup {"mine"} : SnapshotAdd(c, layout_id)
        \/ \E layout_id \in TabLayoutIds : SnapshotDelete(c, layout_id)
        \/ \E layout_id \in TabLayoutIds, w \in FieldWrites :
              SnapshotSetField(c, layout_id, w[1], w[2])

\* C13: whatever a caller does to the mapping get_all_layouts returned
\* (adding or deleting entries, changing a field of one of its records), the
\* registry stays as it was, so later reads return what they would have.
C13_SnapshotMutationKeepsRegistry ==
    [][(locals' # locals /\ SnapshotMutation) => layouts' = layouts]_vars

----------------------------------------------------------------------------
(* Properties of concurrent register calls and reads, over the concurrent  *)
(* runs, in which nothing is ever unregistered                             *)

\* C18: register calls that run at the same time exclude each other: a call
\* that succeeded has its record stored, so of two calls for the same id
\* with different layouts one fails with the duplicate error, and no call
\* overwrites the record of another.
C18_RegistrationIsExclusive ==
    \A t \in Threads :
        (locals[t].pc = "done" /\ locals[t].outcome = "ok") =>
            /\ locals[t].layout_id \in DOMAIN layouts
            /\ layouts[locals[t].layout_id].layout = locals[t].layout

RecordFields ==
    {"id", "layout", "name", "description", "keywords", "static", "allow_multiple",
     "parameters", "parameter_options"}

\* record is the whole record a register call builds for layout_id
CompleteRecord(layout_id, record) ==
    /\ DOMAIN record = RecordFields
    /\ \E layout \in ThreadLayouts :
          record = LayoutRecord(layout_id, layout, DefaultOptions)

\* C19: whenever a read can run, the registry holds for every id no record
\* or a record with all its fields set, and what get_layout, resolve_layout
\* and get_all_layouts return while register calls are in flight is no
\* record or such a complete record.
C19_ReadsSeeCompleteRecords ==
    /\ \A id \in DOMAIN layouts : CompleteRecord(id, layouts[id])
    /\ (ret.op = "get_layout" /\ ret.value # None) =>
          CompleteRecord(ret.id, ret.value.r)
    /\ ret.op = "get_all_layouts" =>
          \A id \in DOMAIN ret.value.m : CompleteRecord(id, ret.value.m[id])
    /\ ret.op = "resolve_layout" =>
          (ret.outcome = "ok" /\ ret.value \in ThreadLayouts \cup {None})

\* get_layout returned the record of an id while another register call for
\* that id was between its check and its store
C19_Witness ==
    /\ ret.op = "get_layout"
    /\ ret.value # None
    /\ \E t \in Threads :
          /\ locals[t].pc = "store"
          /\ locals[t].layout_id = ret.id
          /\ locals[t].record # ret.value.r

----------------------------------------------------------------------------
(* Properties of inject passes run in parallel, over the parallel runs *)

\* the index the identifier of a component carries, None when it has none
IndexOf(c) ==
    IF HasIndexedId(c) THEN c.props.id.m["index"] ELSE None

\* C20: when two inject passes run in parallel for two instance ids, each
\* over the tree it got from resolve, each ends with a tree whose injected
\* identifiers all carry its own instance id: no identifier of the tree of
\* a finished pass carries the index of the other instance.
C20_ParallelPassesKeepTheirIndex ==
    \A tab_id \in TabIds :
        locals[tab_id].pc = "done" =>
            \A a \in ChildrenReach(heap0, locals[tab_id].tree) :
                (HasAttr(heap0[a], "id") /\ ~HasIndexedId(heap0[a])) =>
                    IndexOf(heap[a]) = Str(tab_id)

----------------------------------------------------------------------------
(* Deferred producers *)

\* the arguments a call of f must supply
RequiredArguments(f) ==
    Cardinality({j \in FormalPositions(f) : Signature(f)[j].default = Empty})

\* this step ran the body of f once and handed back the component it built
RanOnce(f) ==
    /\ calls'[f] = calls[f] + 1
    /\ ret'.outcome = "ok"
    /\ ret'.value = Comp(Len(heap) + 1)
    /\ heap' = Append(heap, ProducerBody(f))

\* C21: register_layout_callback on a function with at least one parameter
\* that is no collector registers the function itself and does not call it:
\* the call count is zero after the decoration, the record holds the
\* function and its parameter list, the function runs only in a call of the
\* wrapper or of the stored producer, and the wrapper hands its arguments
\* on unchanged (a call that supplies the required arguments runs the
\* function once, a call that does not fails as the function itself would).
C21_ParameterizedFunctionDeferred ==
    [][\A f \in DecoratedFuncs :
          FormalPositions(f) # {} =>
              /\ (f \notin DOMAIN decorated /\ f \in DOMAIN decorated') =>
                    /\ calls'[f] = 0
                    /\ ret'.op = "register_layout_callback"
                    /\ ret'.outcome = "ok" =>
                          /\ decorated'[f].kind = "forward"
                          /\ layouts'[ret'.id].layout = Func(f)
                          /\ ExactlyFormals(f, layouts'[ret'.id].parameters)
              /\ calls'[f] # calls[f] =>
                    /\ RanOnce(f)
                    /\ \/ ret'.op = "wrapper" /\ ret'.id = f
                       \/ /\ ret'.op = "resolve_layout"
                          /\ ret'.id \in DOMAIN layouts
                          /\ layouts[ret'.id].layout = Func(f)
              /\ \A nargs \in {0, 1} :
                    (ret'.op = "wrapper" /\ ret'.id = f /\ CallWrapper(f, nargs)) =>
                        IF nargs >= RequiredArguments(f)
                        THEN RanOnce(f)
                        ELSE ret'.outcome = "TypeError" /\ calls' = calls]_vars

\* the wrapper of g1(a, b=2, *args, **kw) ran it once, with one argument,
\* while a record holds g1 itself
C21_Witness ==
    /\ "g1" \in DOMAIN decorated
    /\ decorated["g1"].kind = "forward"
    /\ ret.op = "wrapper"
    /\ ret.id = "g1"
    /\ ret.outcome = "ok"
    /\ calls["g1"] = 1
    /\ \E id \in DOMAIN layouts : layouts[id].layout = Func("g1")

----------------------------------------------------------------------------
(* Properties of the lazy runs *)

\* the function the record of layout_id holds, if it holds one
ProducerOf(layout_id) ==
    IF layout_id \in DOMAIN layouts /\ Callable(layouts[layout_id].layout)
    THEN {layouts[layout_id].layout.f}
    ELSE {}

\* C22: when the producer stored for an id raises during resolve_layout, the
\* caller receives that very error, the producer has been called exactly
\* once for that resolve (no retry, no fallback value), and the registry is
\* unchanged: the record is still there and still holds the producer.
C22_ProducerErrorPropagates ==
    [][\A f \in ProducerOf(ret'.id) :
          (ret'.op = "resolve_layout" /\ BodyRaises(f)) =>
              /\ ret'.outcome = ProducerError
              /\ ret'.value = None
              /\ calls' = [calls EXCEPT ![f] = @ + 1]
              /\ layouts' = layouts
              /\ heap' = heap]_vars

\* a registered producer raised in each of two resolve calls and is still
\* registered
C22_Witness ==
    /\ ret.op = "resolve_layout"
    /\ ret.outcome = ProducerError
    /\ ProducerOf(ret.id) = {"failing"}
    /\ calls["failing"] = 2

----------------------------------------------------------------------------
(* Further properties of the registry runs *)

\* C23: no operation of the registry changes a record in place: over
\* register, unregister, get_layout, get_all_layouts, resolve_layout and
\* clear (and the decorator), the record of an id stays the same from step
\* to step until unregister of that id or clear removes it; registering an
\* id that is not (or no longer) registered succeeds, and get_layout then
\* returns the record of the new layout.
C23_RecordsChangeOnlyByRemoval ==
    [][/\ \A id \in DOMAIN layouts :
             IF id \in DOMAIN layouts'
             THEN layouts'[id] = layouts[id]
             ELSE \/ ret'.op = "unregister" /\ ret'.id = id
                  \/ ret'.op = "clear"
       /\ (ret'.op \in RegisterOps /\ ret'.id \notin DOMAIN layouts /\ ret'.id # "") =>
             /\ ret'.outcome = "ok"
             /\ layouts'[ret'.id].layout = ret'.value
       /\ (ret'.op = "get_layout" /\ ret'.id \in DOMAIN layouts) =>
             ret'.value = [k |-> "record", r |-> layouts[ret'.id]]]_vars

\* get_layout returns, for the id the decorator registered with the result
\* of g0, a record of another layout: the id was unregistered and
\* registered again
C23_Witness ==
    /\ "g0" \in DOMAIN decorated
    /\ decorated["g0"].kind = "cached"
    /\ ret.op = "get_layout"
    /\ ret.id = decorated["g0"].id
    /\ ret.value # None
    /\ ret.value.r.layout # decorated["g0"].value

----------------------------------------------------------------------------
(* Further properties of the walker runs *)

\* the segments of a declared path: each a name and whether it carries the
\* array marker
Segments(path) ==
    LET names == SelectSeq([i \in 1..Len(path) |-> i],
                           LAMBDA i : path[i] \notin {".", "[]"})
    IN  [k \in 1..Len(names) |->
            [name |-> path[names[k]],
             array |-> names[k] < Len(path) /\ path[names[k] + 1] = "[]"]]

\* the sub-trees the segments segs address in the mapping m (the properties
\* of a component, or a plain mapping): the last segment addresses the
\* component it holds, or the elements of the array it holds when marked;
\* an earlier segment leads into a mapping, or into the mappings of an array
\* when marked
RECURSIVE Addressed(_, _)
Addressed(m, segs) ==
    IF Head(segs).name \notin DOMAIN m THEN {}
    ELSE LET v == m[Head(segs).name] IN
         IF Len(segs) = 1
         THEN IF v.k = "comp" THEN {v}
              ELSE IF Head(segs).array /\ IsListOrTuple(v) THEN Range(v.items)
              ELSE {}
         ELSE IF Head(segs).array /\ IsListOrTuple(v)
         THEN UNION {Addressed(item.m, Tail(segs)) :
                        item \in {x \in Range(v.items) : x.k = "dict"}}
         ELSE IF v.k = "dict" THEN Addressed(v.m, Tail(segs))
         ELSE {}

\* the sub-trees under the declared paths of the component at a
DeclaredSubtrees(h, a) ==
    UNION {Addressed(h[a].props, Segments(path)) : path \in Range(h[a].cprops)}

\* the components reachable from v through sequences, children slots and
\* declared paths
RECURSIVE Reachable(_, _)
Reachable(h, v) ==
    IF v.k = "comp"
    THEN {v.a}
         \cup (IF HasAttr(h[v.a], "children") THEN Reachable(h, h[v.a].props.children)
               ELSE {})
         \cup UNION {Reachable(h, t) : t \in DeclaredSubtrees(h, v.a)}
    ELSE IF IsListOrTuple(v)
    THEN UNION {Reachable(h, v.items[i]) : i \in 1..Len(v.items)}
    ELSE {}

\* the calls of the transform, in order, that went to the component at a
VisitsOf(a) == {i \in 1..Len(ret.log) : ret.log[i] = a}

\* C24: in a walk over a tree in which no component object occurs twice,
\* the transform is applied exactly once to every component reachable
\* through children slots and declared paths, to each component before any
\* component below it (pre-order), and to no other component: a component
\* inside a plain mapping that no declared path addresses is never handed
\* to the transform.
C24_EveryReachableOncePreOrder ==
    ret.op \in {"walk", "inject"} =>
        /\ \A a \in DOMAIN heap0 :
              Cardinality(VisitsOf(a)) =
                  IF a \in Reachable(heap0, input) THEN 1 ELSE 0
        /\ \A a \in Reachable(heap0, input) :
              \A b \in Reachable(heap0, Comp(a)) \ {a} :
                  \A i \in VisitsOf(a), j \in VisitsOf(b) : i < j

\* a walk reached a component under a declared path of the root and left
\* out a component that sits in a mapping no path addresses
C24_Witness ==
    /\ ret.op = "walk"
    /\ input = Comp(1)
    /\ \E t \in DeclaredSubtrees(heap0, 1) : t.k = "comp" /\ t.a \in Range(ret.log)
    /\ \E a \in DOMAIN heap0 : a \notin Range(ret.log)
    /\ Len(ret.log) >= 2

HeldAs(p, kind) ==
    LET segs == Segments(heap0[1].cprops[p])
        held == IF Len(segs) = 1 THEN heap0[1].props[segs[1].name]
                ELSE heap0[1].props[segs[1].name].m[segs[2].name]
    IN  /\ Len(segs) > 1 => heap0[1].props[segs[1].name].k = "dict"
        /\ IF kind = "comp" THEN held.k = "comp" ELSE IsListOrTuple(held)

RECURSIVE SameKeys(_, _)
SameKeys(old, new) ==
    IF old.k = "dict"
    THEN /\ new.k = "dict"
         /\ DOMAIN new.m = DOMAIN old.m
         /\ \A key \in DOMAIN old.m : SameKeys(old.m[key], new.m[key])
    ELSE IF IsListOrTuple(old)
    THEN /\ IsListOrTuple(new)
         /\ Len(new.items) = Len(old.items)
         /\ \A i \in 1..Len(old.items) : SameKeys(old.items[i], new.items[i])
    ELSE old = None => new = None

\* C26: a missing property, a missing mapping key or a None value at a
\* segment of a declared path ends the descent for that path without an
\* error and without a change: the component gets no new property, the
\* mappings under its properties (the identifier aside, which is the
\* transform's to set) get no new key, what was None stays None; and the
\* other declared paths of the component are still processed.
C26_DeadPathsAreSkipped ==
    ret.op \in {"walk", "inject"} =>
        /\ ret.outcome = "ok"
        /\ \A a \in Range(ret.log) :
              /\ DOMAIN heap[a].props = DOMAIN heap0[a].props
              /\ \A p \in DOMAIN heap0[a].props \ {"id"} :
                    SameKeys(heap0[a].props[p], heap[a].props[p])
              /\ \A path \in Range(heap0[a].cprops) :
                    \A t \in Addressed(heap0[a].props, Segments(path)) :
                        Reachable(heap0, t) \subseteq Range(ret.log)

\* the root declares a path whose property is missing, one that meets None
\* inside a mapping and one whose key is missing, all before the paths that
\* lead to components, and the walk reached those components
C26_Witness ==
    /\ ret.op = "walk"
    /\ input = Comp(1)
    /\ \E i, j, k, l \in 1..Len(heap0[1].cprops) :
          /\ i < l /\ j < l /\ k < l
          /\ Segments(heap0[1].cprops[i])[1].name \notin DOMAIN heap0[1].props
          /\ LET segs == Segments(heap0[1].cprops[j])
             IN  /\ Len(segs) > 1
                 /\ segs[1].name \in DOMAIN heap0[1].props
                 /\ heap0[1].props[segs[1].name].k = "dict"
                 /\ segs[2].name \in DOMAIN heap0[1].props[segs[1].name].m
                 /\ heap0[1].props[segs[1].name].m[segs[2].name] = None
          /\ LET segs == Segments(heap0[1].cprops[k])
             IN  /\ Len(segs) > 1
                 /\ segs[1].name \in DOMAIN heap0[1].props
                 /\ heap0[1].props[segs[1].name].k = "dict"
                 /\ segs[2].name \notin DOMAIN heap0[1].props[segs[1].name].m
          /\ \E t \in Addressed(heap0[1].props, Segments(heap0[1].cprops[l])) :
                t.k = "comp" /\ t.a \in Range(ret.log)

\* the identifier of the component at a
IdOf(h, a) == IF HasAttr(h[a], "id") THEN h[a].props.id ELSE Absent

\* C27: inject is idempotent and the first pass wins: a pass with instance
\* id b over the tree a pass with instance id a returned leaves every
\* identifier as the first pass set it, so inject(inject(tree, a), b) has
\* exactly the identifiers of inject(tree, a).
C27_SecondPassKeepsIdentifiers ==
    [][(ret.op = "inject" /\ ret'.op = "inject") =>
          /\ ret'.value = ret.value
          /\ \A a \in DOMAIN heap : IdOf(heap', a) = IdOf(heap, a)]_vars

\* a second pass with another instance id ran over a tree in which the
\* first pass had rewritten a string identifier and completed a mapping
C27_Witness ==
    /\ ret.op = "inject"
    /\ Len(passes) = 2
    /\ passes[1] # passes[2]
    /\ \E a, b \in Range(ret.log) :
          /\ HasStringId(heap0[a])
          /\ HasPartialId(heap0[b])
          /\ heap[a].props.id = PatternId(heap0[a].props.id.s, passes[1])

\* C28: for a record whose layout is callable, every resolve_layout calls
\* the producer exactly once, without arguments, and returns what that call
\* returned (a producer that needs an argument fails as such a call does);
\* nothing is cached: each resolve runs the producer again, so n resolves
\* are n runs, and the record keeps holding the producer.
C28_ResolveRunsProducerEachTime ==
    [][\A f \in ProducerOf(ret'.id) :
          ret'.op = "resolve_layout" =>
              /\ layouts' = layouts
              /\ \A g \in DOMAIN calls \ {f} : calls'[g] = calls[g]
              /\ IF RequiredArguments(f) = 0
                 THEN RanOnce(f)
                 ELSE ret'.outcome = "TypeError" /\ calls' = calls]_vars

\* the second resolve of a registered producer ran it a second time and
\* returned the component of that run
C28_Witness ==
    /\ ret.op = "resolve_layout"
    /\ ret.outcome = "ok"
    /\ ProducerOf(ret.id) = {"f0"}
    /\ calls["f0"] = 2
    /\ ret.value = Comp(Len(heap))

----------------------------------------------------------------------------
(* Properties of the decorator runs *)

\* register_layout_callback takes the eager path for f: the parameter list
\* it reads is empty
Eager(f) == FormalPositions(f) = {} \/ ~SignatureReadable(f)

\* this step applied the decorator to f
Decorates(f) == f \notin DOMAIN decorated /\ f \in DOMAIN decorated'

\* C29: when register_layout_callback is applied to a function without
\* parameters and the registration cannot complete (the id is already
\* registered or empty, or the function itself raises), the registry is left
\* exactly as it was and the error reaches the caller; in the duplicate-id
\* case the function has nevertheless been called once, since it is
\* evaluated before the duplicate check.
C29_FailedEagerDecorationKeepsRegistry ==
    [][\A f \in LazyDecoratedFuncs :
          (Decorates(f) /\ Eager(f)) =>
              /\ calls'[f] = calls[f] + 1
              /\ BodyRaises(f) =>
                    /\ ret'.outcome = ProducerError
                    /\ layouts' = layouts
              /\ (~BodyRaises(f) /\ ret'.id = "") =>
                    /\ ret'.outcome = EmptyIdError
                    /\ layouts' = layouts
              /\ (~BodyRaises(f) /\ ret'.id \in DOMAIN layouts) =>
                    /\ ret'.outcome = DuplicateError
                    /\ layouts' = layouts
              /\ ret'.outcome # "ok" => decorated'[f].kind = "raised"]_vars

\* the decorator met an id that was taken: the function ran once, and the
\* record of the id is not its result
C29_Witness ==
    /\ ret.op = "register_layout_callback"
    /\ ret.outcome = DuplicateError
    /\ "g0" \in DOMAIN decorated
    /\ decorated["g0"].kind = "raised"
    /\ calls["g0"] = 1
    /\ ret.id \in DOMAIN layouts
    /\ layouts[ret.id].layout # ret.value

====
